---- MODULE Spec2Model ----
(***************************************************************************)
(* A model of the EC2 price-fetching pipeline of this repository, in its   *)
(* two variants fetch_price_clean.py ("clean") and                         *)
(* fetch_price_clean_optimized.py ("optimized"): the price lookup          *)
(* get_ec2_price, the per-row processing of main's loop, the aggregation   *)
(* into group totals and a grand total, and the report writer; the start   *)
(* of main (session, region, input file) and the user interrupt.           *)
(*                                                                         *)
(* Python and pandas values are records [t, n, s, g]:                      *)
(*   t = "none"  None                                                      *)
(*   t = "nan"   float NaN (a missing cell)      t = "inf"  float +inf     *)
(*   t = "int"   the integer n                                             *)
(*   t = "float" the float n / Scale (fixed point, exact arithmetic)       *)
(*   t = "str"   a string whose characters are the sequence s (strings     *)
(*               the code strips or parses)                                *)
(*   t = "txt"   a string whose text g is only ever compared or printed    *)
(*               (error tags, environment labels, report markers)          *)
(***************************************************************************)
EXTENDS Integers, Sequences, FiniteSets, TLC

\* Floats are fixed-point numbers with four decimals: 0.0104 is FloatV(104).
Scale == 10000

NoneV == [t |-> "none", n |-> 0, s |-> <<>>, g |-> ""]
NaN == [t |-> "nan", n |-> 0, s |-> <<>>, g |-> ""]
Inf == [t |-> "inf", n |-> 0, s |-> <<>>, g |-> ""]
IntV(k) == [t |-> "int", n |-> k, s |-> <<>>, g |-> ""]
FloatV(u) == [t |-> "float", n |-> u, s |-> <<>>, g |-> ""]
StrV(cs) == [t |-> "str", n |-> 0, s |-> cs, g |-> ""]
TxtV(x) == [t |-> "txt", n |-> 0, s |-> <<>>, g |-> x]

IsNumber(v) == v.t \in {"int", "float"}

\* The four error tags main and process_instance_row write into a row.
TagInvalidType == TxtV("Invalid instance type")
TagInvalidCount == TxtV("Invalid count")
TagNotFound == TxtV("Not found")
TagError == TxtV("Error")
ErrorTags == {TagInvalidType, TagInvalidCount, TagNotFound, TagError}

-----------------------------------------------------------------------------
(* Python built-ins the code calls: str.strip, isinstance, int, float.      *)

RECURSIVE LStrip(_)
LStrip(cs) == IF cs # <<>> /\ Head(cs) = " " THEN LStrip(Tail(cs)) ELSE cs

RECURSIVE RStrip(_)
RStrip(cs) ==
  IF cs # <<>> /\ cs[Len(cs)] = " " THEN RStrip(SubSeq(cs, 1, Len(cs) - 1)) ELSE cs

\* str.strip(): leading and trailing whitespace removed.
Strip(cs) == RStrip(LStrip(cs))

Digits == <<"0", "1", "2", "3", "4", "5", "6", "7", "8", "9">>

IsDigit(c) == \E d \in 1..Len(Digits) : Digits[d] = c

DigitVal(c) == (CHOOSE d \in 1..Len(Digits) : Digits[d] = c) - 1

AllDigits(cs) == cs # <<>> /\ \A k \in 1..Len(cs) : IsDigit(cs[k])

RECURSIVE DigitsValue(_)
DigitsValue(cs) ==
  IF cs = <<>> THEN 0
  ELSE 10 * DigitsValue(SubSeq(cs, 1, Len(cs) - 1)) + DigitVal(cs[Len(cs)])

\* The text after an optional sign, and the sign's factor.
Unsigned(cs) == IF cs # <<>> /\ Head(cs) \in {"-", "+"} THEN Tail(cs) ELSE cs
SignOf(cs) == IF cs # <<>> /\ Head(cs) = "-" THEN -1 ELSE 1

\* int(x): [exc, n]; exc is "" when the conversion succeeds.
PyInt(v) ==
  CASE v.t = "int" -> [exc |-> "", n |-> v.n]
    [] v.t = "float" ->
         [exc |-> "", n |-> IF v.n >= 0 THEN v.n \div Scale ELSE -((-v.n) \div Scale)]
    [] v.t = "nan" -> [exc |-> "ValueError", n |-> 0]
    [] v.t = "inf" -> [exc |-> "OverflowError", n |-> 0]
    [] v.t = "str" ->
         LET b == Strip(v.s)
         IN  IF AllDigits(Unsigned(b))
             THEN [exc |-> "", n |-> SignOf(b) * DigitsValue(Unsigned(b))]
             ELSE [exc |-> "ValueError", n |-> 0]
    [] OTHER -> [exc |-> "TypeError", n |-> 0]

\* The position of the decimal point in cs, 0 when there is none.
PointAt(cs) ==
  IF \E k \in 1..Len(cs) : cs[k] = "."
  THEN CHOOSE k \in 1..Len(cs) : cs[k] = "." /\ \A j \in 1..(k - 1) : cs[j] # "."
  ELSE 0

\* cs padded with zeros, or cut, to exactly four digits.
FourDigits(cs) == SubSeq(cs \o <<"0", "0", "0", "0">>, 1, 4)

\* float(s) of a decimal string: [exc, n] with n in units of 1 / Scale.
PyFloat(cs) ==
  LET b == Strip(cs)
      u == Unsigned(b)
      p == PointAt(u)
      whole == IF p = 0 THEN u ELSE SubSeq(u, 1, p - 1)
      frac == IF p = 0 THEN <<>> ELSE SubSeq(u, p + 1, Len(u))
      wellFormed ==
        /\ whole \o frac # <<>>
        /\ \A k \in 1..Len(whole) : IsDigit(whole[k])
        /\ \A k \in 1..Len(frac) : IsDigit(frac[k])
  IN  IF wellFormed
      THEN [exc |-> "",
            n |-> SignOf(b) * (DigitsValue(whole) * Scale + DigitsValue(FourDigits(frac)))]
      ELSE [exc |-> "ValueError", n |-> 0]

-----------------------------------------------------------------------------
(* The pricing service's answer and get_ec2_price.                          *)
(* A parsed JSON value is an object [k |-> "obj", m |-> <<[key, val], ...>>] *)
(* whose members keep their order, or a string [k |-> "str", s |-> chars].   *)

Obj(members) == [k |-> "obj", m |-> members, s |-> <<>>]
JStr(cs) == [k |-> "str", m |-> <<>>, s |-> cs]
Member(key, val) == [key |-> key, val |-> val]

\* d[key]: KeyError when an object lacks the key, TypeError on a string.
Subscript(d, key) ==
  IF d.k # "obj" THEN [exc |-> "TypeError", val |-> d]
  ELSE IF \E i \in 1..Len(d.m) : d.m[i].key = key
       THEN [exc |-> "",
             val |-> d.m[CHOOSE i \in 1..Len(d.m) : d.m[i].key = key].val]
       ELSE [exc |-> "KeyError", val |-> d]

\* list(d.keys())[0]: IndexError when the object is empty.
FirstKey(d) ==
  IF d.k # "obj" THEN [exc |-> "AttributeError", key |-> ""]
  ELSE IF d.m = <<>> THEN [exc |-> "IndexError", key |-> ""]
       ELSE [exc |-> "", key |-> d.m[1].key]

\* d[list(d.keys())[0]]
FirstValue(d) ==
  LET fk == FirstKey(d)
  IN  IF fk.exc # "" THEN [exc |-> fk.exc, val |-> d] ELSE Subscript(d, fk.key)

\* The descent through the keys of path, each step raising or going down.
RECURSIVE Descend(_, _)
Descend(d, path) ==
  IF path = <<>> THEN [exc |-> "", val |-> d]
  ELSE LET step == IF Head(path) = "*" THEN FirstValue(d) ELSE Subscript(d, Head(path))
       IN  IF step.exc # "" THEN step ELSE Descend(step.val, Tail(path))

\* terms -> OnDemand -> first key -> priceDimensions -> first key ->
\* pricePerUnit -> USD ("*" stands for the first key of the object).
PricePath == <<"terms", "OnDemand", "*", "priceDimensions", "*", "pricePerUnit", "USD">>

\* The body of the inner try: the traversal and float(): [exc, n].
ExtractPrice(price_data) ==
  LET usd == Descend(price_data, PricePath)
  IN  IF usd.exc # "" THEN [exc |-> usd.exc, n |-> 0]
      ELSE IF usd.val.k # "str" THEN [exc |-> "TypeError", n |-> 0]
      ELSE PyFloat(usd.val.s)

\* The exceptions the inner try catches.
InnerCaught == {"KeyError", "IndexError"}

\* A lookup that reads the first item and no other.
PriceLoop_FirstItemOnly(items) ==
  IF items = <<>> THEN [price |-> NoneV, via |-> "exhausted"]
  ELSE LET price_item == Head(items)
       IN  IF ~price_item.valid THEN [price |-> NoneV, via |-> "exception"]
           ELSE LET r == ExtractPrice(price_item.data)
                IN  IF r.exc = "" THEN [price |-> FloatV(r.n), via |-> "price"]
                    ELSE IF r.exc \in {"KeyError", "IndexError"}
                         THEN [price |-> NoneV, via |-> "exhausted"]
                         ELSE [price |-> NoneV, via |-> "exception"]

\* The for loop over response['PriceList']: an item is [valid, data], the
\* text of a product and what json.loads makes of it.
RECURSIVE PriceLoop(_)
PriceLoop(items) ==
  IF items = <<>> THEN [price |-> NoneV, via |-> "exhausted"]
  ELSE LET price_item == Head(items)
       IN  IF ~price_item.valid THEN [price |-> NoneV, via |-> "exception"]
           ELSE LET r == ExtractPrice(price_item.data)
                IN  IF r.exc = "" THEN [price |-> FloatV(r.n), via |-> "price"]
                    ELSE IF r.exc \in InnerCaught THEN PriceLoop(Tail(items))
                    ELSE [price |-> NoneV, via |-> "exception"]

\* An exception that leaves get_ec2_price instead of a returned value.
Raised == [t |-> "raised", n |-> 0, s |-> <<>>, g |-> ""]

\* get_ec2_price with the ClientError handler alone: whatever else the body
\* raises goes to the caller.
get_ec2_price_ClientErrorOnly(svc) ==
  CASE svc.kind = "ClientError" -> [price |-> NoneV, via |-> "client_error"]
    [] svc.kind = "Exception" -> [price |-> Raised, via |-> "raised"]
    [] OTHER ->
         IF ~svc.has_list \/ svc.PriceList = <<>>
         THEN [price |-> NoneV, via |-> "no_prices"]
         ELSE LET r == PriceLoop(svc.PriceList)
              IN  IF r.via = "exception" THEN [price |-> Raised, via |-> "raised"] ELSE r

\* get_ec2_price on the service's answer svc = [kind, has_list, PriceList, code]:
\* the value returned and the return statement that returned it. An
\* exception of get_products or of the loop (via "exception") is caught by
\* one of the two handlers, which return None.
get_ec2_price(svc) ==
  CASE svc.kind = "ClientError" -> [price |-> NoneV, via |-> "client_error"]
    [] svc.kind = "Exception" -> [price |-> NoneV, via |-> "exception"]
    [] OTHER ->
         IF ~svc.has_list \/ svc.PriceList = <<>>
         THEN [price |-> NoneV, via |-> "no_prices"]
         ELSE PriceLoop(svc.PriceList)

(* Products the service may return. *)
Usd104 == JStr(<<"0", ".", "0", "1", "0", "4">>)
Usd250 == JStr(<<"0", ".", "0", "2", "5">>)
UsdNA == JStr(<<"N", "/", "A">>)

PerUnit(usd) == Obj(<<Member("pricePerUnit", Obj(<<Member("USD", usd)>>))>>)
Dimensions(usd) == Obj(<<Member("rate1", PerUnit(usd))>>)
Term(dims) == Obj(<<Member("priceDimensions", dims)>>)
Product(ondemand) ==
  Obj(<<Member("product", Obj(<<>>)), Member("terms", Obj(<<Member("OnDemand", ondemand)>>))>>)
Item(data) == [valid |-> TRUE, data |-> data]

Good104 == Item(Product(Obj(<<Member("sku1", Term(Dimensions(Usd104)))>>)))
Good250 == Item(Product(Obj(<<Member("sku1", Term(Dimensions(Usd250)))>>)))
\* Two terms: the first key's price is the one extracted.
TwoTerms ==
  Item(Product(Obj(<<Member("sku1", Term(Dimensions(Usd250))),
                     Member("sku2", Term(Dimensions(Usd104)))>>)))
NoTerms == Item(Obj(<<Member("product", Obj(<<>>))>>))
NoOnDemand == Item(Obj(<<Member("terms", Obj(<<Member("Reserved", Obj(<<>>))>>))>>))
EmptyOnDemand == Item(Product(Obj(<<>>)))
EmptyDimensions == Item(Product(Obj(<<Member("sku1", Term(Obj(<<>>)))>>)))
NoUsd ==
  Item(Product(Obj(<<Member("sku1",
    Term(Obj(<<Member("rate1",
      Obj(<<Member("pricePerUnit", Obj(<<Member("CNY", Usd104)>>))>>))>>)))>>)))
NonNumericUsd == Item(Product(Obj(<<Member("sku1", Term(Dimensions(UsdNA)))>>)))
NotJson == [valid |-> FALSE, data |-> JStr(<<>>)]

Items ==
  {Good104, Good250, TwoTerms, NoTerms, NoOnDemand, EmptyOnDemand, EmptyDimensions,
   NoUsd, NonNumericUsd, NotJson}

\* The longest PriceList the model draws.
MaxItems == 2

PriceLists == UNION {[1..k -> Items] : k \in 0..MaxItems}

Response(list) == [kind |-> "ok", has_list |-> TRUE, PriceList |-> list, code |-> ""]
NoPriceList == [kind |-> "ok", has_list |-> FALSE, PriceList |-> <<>>, code |-> ""]
ClientError(code) == [kind |-> "ClientError", has_list |-> FALSE, PriceList |-> <<>>, code |-> code]
OtherException == [kind |-> "Exception", has_list |-> FALSE, PriceList |-> <<>>, code |-> ""]

ServiceOutcomes ==
  {Response(l) : l \in PriceLists}
    \cup {NoPriceList, OtherException, ClientError("AccessDeniedException"),
          ClientError("ThrottlingException"), ClientError("")}

-----------------------------------------------------------------------------
(* The inventory table (the DataFrame df) and the run's state.              *)

VARIABLES
  variant,       \* "clean" (fetch_price_clean.py) or "optimized"
  has_count,     \* 'count' in df.columns
  has_env,       \* 'environment' in df.columns
  df,            \* the rows: [inst_type, count, environment, hourly_price,
                 \*            monthly_price, total_monthly]
  index,         \* the row the loop is at (1-based)
  error_rows,    \* the error summary list: <<[row, kind], ...>>
  prices_found,
  lookups,       \* per processed row: was get_ec2_price called, what it returned
  pc,            \* "loop", "aggregate", "output", "done"
  env_totals_df, \* [set, rows]: None, or the group rows [environment, total_monthly]
  grand_total,   \* None or a float
  console,       \* what main printed after the loop: <<[what, g, v], ...>>
  output,        \* the destination the run was given: [given, dir_exists, ext, writable]
  file,          \* the output file: [written, rows]
  success,       \* what write_output_file returned (None before the call)
  svc,           \* the service's answer a lone get_ec2_price call is given
  result,        \* what that call returned
  region_code,   \* args.region
  region_name,   \* the location filter get_region_name made of it ("" before)
  requests,      \* the get_products calls issued: <<[row, location], ...>>
  startup,       \* [session, input]: how the session and the input file turned out
  exit_status,   \* None while the process runs, then its exit status
  interrupted,   \* a KeyboardInterrupt ended the run
  reread,        \* the data rows read back from the written report
  twin           \* the optimized variant run side by side on the same input:
                 \* [df, error_rows, env_totals_df, grand_total, file]

vars ==
  <<variant, has_count, has_env, df, index, error_rows, prices_found, lookups, pc,
    env_totals_df, grand_total, console, output, file, success, svc, result,
    region_code, region_name, requests, startup, exit_status, interrupted, reread,
    twin>>

\* A cell of a column the table does not have.
Absent == [t |-> "absent", n |-> 0, s |-> <<>>, g |-> ""]

T3Micro == StrV(<<"t", "3">>)
Blank == StrV(<<" ">>)

\* Count cells: 5, 0, 0.5, 2.0, a missing cell, "5", "x", inf.
CountCells ==
  {IntV(5), IntV(0), FloatV(Scale \div 2), FloatV(2 * Scale), NaN,
   StrV(<<"5">>), StrV(<<"x">>), Inf}

EnvCells == {TxtV("prod"), TxtV("dev"), NaN}

\* The labels of EnvCells in the order sorting puts them.
EnvOrder == <<"dev", "prod">>

InputRow(inst, cnt, env) == [inst_type |-> inst, count |-> cnt, environment |-> env]

\* The inventory rows the model draws: every count cell, every environment
\* cell, and rows whose instance type is blank or missing.
InputRows ==
  {InputRow(T3Micro, c, TxtV("prod")) : c \in CountCells}
    \cup {InputRow(T3Micro, IntV(5), e) : e \in EnvCells}
    \cup {InputRow(Blank, IntV(2), TxtV("prod")), InputRow(NaN, IntV(2), NaN)}

\* The row as read from a file with or without the optional columns.
Project(r, hc, he) ==
  [inst_type |-> r.inst_type,
   count |-> IF hc THEN r.count ELSE Absent,
   environment |-> IF he THEN r.environment ELSE Absent]

\* The most rows a table has.
MaxRows == 2

Tables(hc, he) ==
  UNION {[1..k -> {Project(r, hc, he) : r \in InputRows}] : k \in 0..MaxRows}

\* df['hourly_price'] = None; df['monthly_price'] = None;
\* if 'count' in df.columns: df['total_monthly'] = None
AddPriceColumns(r, hc) ==
  [inst_type |-> r.inst_type, count |-> r.count, environment |-> r.environment,
   hourly_price |-> NoneV, monthly_price |-> NoneV,
   total_monthly |-> IF hc THEN NoneV ELSE Absent]

NoTotals == [set |-> FALSE, rows |-> <<>>]
NoOutput == [given |-> FALSE, dir_exists |-> FALSE, ext |-> "", writable |-> FALSE]
NoFile == [written |-> FALSE, rows |-> <<>>]
NoCall == [kind |-> "none", has_list |-> FALSE, PriceList |-> <<>>, code |-> ""]
NoResult == [price |-> NoneV, via |-> "pending"]

\* args.region's default.
DefaultRegion == "me-south-1"

\* The static map of region codes to the names the Pricing API uses.
region_mapping ==
  ("us-east-1" :> "US East (N. Virginia)") @@ ("us-east-2" :> "US East (Ohio)")
    @@ ("us-west-1" :> "US West (N. California)") @@ ("us-west-2" :> "US West (Oregon)")
    @@ ("af-south-1" :> "Africa (Cape Town)") @@ ("ap-east-1" :> "Asia Pacific (Hong Kong)")
    @@ ("ap-south-1" :> "Asia Pacific (Mumbai)") @@ ("ap-northeast-1" :> "Asia Pacific (Tokyo)")
    @@ ("ap-northeast-2" :> "Asia Pacific (Seoul)")
    @@ ("ap-northeast-3" :> "Asia Pacific (Osaka)")
    @@ ("ap-southeast-1" :> "Asia Pacific (Singapore)")
    @@ ("ap-southeast-2" :> "Asia Pacific (Sydney)")
    @@ ("ap-southeast-3" :> "Asia Pacific (Jakarta)") @@ ("ca-central-1" :> "Canada (Central)")
    @@ ("eu-central-1" :> "EU (Frankfurt)") @@ ("eu-west-1" :> "EU (Ireland)")
    @@ ("eu-west-2" :> "EU (London)") @@ ("eu-west-3" :> "EU (Paris)")
    @@ ("eu-north-1" :> "EU (Stockholm)") @@ ("eu-south-1" :> "EU (Milan)")
    @@ ("me-south-1" :> "Middle East (Bahrain)")
    @@ ("sa-east-1" :> "South America (Sao Paulo)")

\* A lookup that falls back to the code itself.
get_region_name_CodeAsDefault(code) ==
  IF code \in DOMAIN region_mapping THEN region_mapping[code] ELSE code

\* region_mapping.get(region_code, f"Unknown region: {region_code}")
get_region_name(code) ==
  IF code \in DOMAIN region_mapping THEN region_mapping[code]
  ELSE "Unknown region: " \o code

\* The session and the input file were accepted.
Accepted == [session |-> "ok", input |-> "ok"]

\* The exit status of a run that reaches the end of main.
ExitNormally == IntV(0)

\* No second run.
NoTwin ==
  [df |-> <<>>, error_rows |-> <<>>, env_totals_df |-> NoTotals, grand_total |-> NoneV,
   file |-> NoFile]

\* The state when main enters its loop over the rows.
Init ==
  /\ variant \in {"clean", "optimized"}
  /\ has_count \in BOOLEAN
  /\ has_env \in BOOLEAN
  /\ \E tbl \in Tables(has_count, has_env) :
       df = [i \in 1..Len(tbl) |-> AddPriceColumns(tbl[i], has_count)]
  /\ index = 1
  /\ error_rows = <<>>
  /\ prices_found = FALSE
  /\ lookups = <<>>
  /\ pc = "loop"
  /\ env_totals_df = NoTotals
  /\ grand_total = NoneV
  /\ console = <<>>
  /\ output = NoOutput
  /\ file = NoFile
  /\ success = NoneV
  /\ svc = NoCall
  /\ result = NoResult
  /\ region_code = DefaultRegion
  /\ region_name = get_region_name(DefaultRegion)
  /\ requests = <<>>
  /\ startup = Accepted
  /\ exit_status = NoneV
  /\ interrupted = FALSE
  /\ reread = <<>>
  /\ twin = NoTwin

-----------------------------------------------------------------------------
(* Row processing: the body of main's loop.                                 *)

HoursPerDay == 24
DaysPerMonth == 30

\* The validation without the strip(): only the empty string is blank.
IsInvalidInstanceType_NoStrip(instance_type) ==
  instance_type.t # "str" \/ instance_type.s = <<>>

\* not isinstance(instance_type, str) or not instance_type.strip()
IsInvalidInstanceType(instance_type) ==
  instance_type.t # "str" \/ Strip(instance_type.s) = <<>>

\* A month of 730 hours (a year's hours over twelve).
Monthly_730Hours(price) == FloatV(price.n * 730)

\* monthly = price * 24 * 30
Monthly(price) == FloatV(price.n * HoursPerDay * DaysPerMonth)

\* isinstance(x, (int, float))
IsIntOrFloat(x) == x.t \in {"int", "float", "nan", "inf"}

\* x > 0 for an int or a float (NaN compares false).
IsPositive(x) == (x.t \in {"int", "float"} /\ x.n > 0) \/ x.t = "inf"

\* a * b for a float a and an int or float b, in fixed point.
Times(a, b) ==
  CASE b.t = "int" -> FloatV(a.n * b.n)
    [] b.t = "float" ->
         FloatV((a.n \div Scale) * b.n + ((a.n % Scale) * b.n) \div Scale)
    [] OTHER -> b

\* What processing one row leaves behind: the three result cells (keep means
\* the cell is not assigned), the error_rows entries appended, whether a price
\* was found, and the call to get_ec2_price.
Keep == [t |-> "keep", n |-> 0, s |-> <<>>, g |-> ""]

NotCalled == [called |-> FALSE, price |-> NoneV]
Called(price) == [called |-> TRUE, price |-> price]

\* The try of the count validation: [exc, count, total, error].
ValidateCount(cell) ==
  LET c == PyInt(cell)
  IN  CASE c.exc = "" ->
             IF c.n <= 0
             THEN [exc |-> "", count |-> c.n, total |-> TagInvalidCount,
                   error |-> "CountNotPositive"]
             ELSE [exc |-> "", count |-> c.n, total |-> Keep, error |-> ""]
        [] c.exc \in {"ValueError", "TypeError"} ->
             [exc |-> "", count |-> 0, total |-> TagInvalidCount,
              error |-> "CountNotNumber"]
        [] OTHER -> [exc |-> c.exc, count |-> 0, total |-> Keep, error |-> ""]

NoCount == [exc |-> "", count |-> 0, total |-> Keep, error |-> ""]

ErrorsOf(error) == IF error = "" THEN <<>> ELSE <<error>>

\* fetch_price_clean.py, the branch of a blank or non-string instance type.
CleanInvalidType(hc) ==
  [hourly |-> TagInvalidType, monthly |-> TagInvalidType,
   total |-> IF hc THEN TagInvalidType ELSE Keep,
   errors |-> <<"InvalidInstanceType">>, found |-> FALSE, lookup |-> NotCalled]

\* fetch_price_clean.py, the handler of the row's except Exception.
CleanUnexpected(hc, lookup) ==
  [hourly |-> TagError, monthly |-> TagError,
   total |-> IF hc THEN TagError ELSE Keep,
   errors |-> <<"Unexpected">>, found |-> FALSE, lookup |-> lookup]

\* fetch_price_clean.py: the total is computed from the cell itself.
CleanHasValidCount(row, hc) ==
  hc /\ IsIntOrFloat(row.count) /\ IsPositive(row.count)

\* fetch_price_clean.py, the branch of a price that was found.
CleanPriced(row, hc, cv, price) ==
  [hourly |-> price, monthly |-> Monthly(price),
   total |-> IF CleanHasValidCount(row, hc)
             THEN Times(Monthly(price), row.count)
             ELSE cv.total,
   errors |-> ErrorsOf(cv.error), found |-> TRUE, lookup |-> Called(price)]

\* The not-found branch tagging total_monthly alone.
CleanNotFound_TotalOnly(hc, cv) ==
  [hourly |-> Keep, monthly |-> Keep,
   total |-> IF hc THEN TagNotFound ELSE Keep,
   errors |-> ErrorsOf(cv.error), found |-> FALSE, lookup |-> Called(NoneV)]

\* fetch_price_clean.py, the branch of a lookup that returned None.
CleanNotFound(hc, cv) ==
  [hourly |-> TagNotFound, monthly |-> TagNotFound,
   total |-> IF hc THEN TagNotFound ELSE Keep,
   errors |-> ErrorsOf(cv.error), found |-> FALSE, lookup |-> Called(NoneV)]

\* fetch_price_clean.py, one iteration of the loop on row with the service
\* answering answer.
CleanRow(row, hc, answer) ==
  IF IsInvalidInstanceType(row.inst_type) THEN CleanInvalidType(hc)
  ELSE LET cv == IF hc THEN ValidateCount(row.count) ELSE NoCount
       IN  IF cv.exc # "" THEN CleanUnexpected(hc, NotCalled)
           ELSE LET price == get_ec2_price(answer).price
                IN  IF price # NoneV THEN CleanPriced(row, hc, cv, price)
                    ELSE CleanNotFound(hc, cv)

\* fetch_price_clean_optimized.py: process_instance_row's result dict, with
\* the exception it raised instead (exc) and its call to get_ec2_price.
EmptyResult ==
  [exc |-> "", hourly_price |-> NoneV, monthly_price |-> NoneV, total_monthly |-> NoneV,
   error |-> "", lookup |-> NotCalled]

\* The value a dict entry holds after an assignment that may not happen.
Assigned(old, new) == IF new = Keep THEN old ELSE new

\* process_instance_row, the branch of a blank or non-string instance type.
OptInvalidType(hc) ==
  [EmptyResult EXCEPT !.hourly_price = TagInvalidType, !.monthly_price = TagInvalidType,
                      !.total_monthly = IF hc THEN TagInvalidType ELSE NoneV,
                      !.error = "InvalidInstanceType"]

\* process_instance_row: if count and count > 0
OptHasValidCount(hc, cv) == hc /\ cv.count # 0 /\ cv.count > 0

\* process_instance_row, the branch of a price that was found.
OptPriced(hc, cv, price) ==
  [EmptyResult EXCEPT !.hourly_price = price, !.monthly_price = Monthly(price),
                      !.total_monthly =
                         IF OptHasValidCount(hc, cv)
                         THEN Times(Monthly(price), IntV(cv.count))
                         ELSE Assigned(NoneV, cv.total),
                      !.error = cv.error, !.lookup = Called(price)]

\* The not-found branch leaving an 'Invalid count' tag where it is.
OptNotFound_KeepsInvalidCount(hc, cv) ==
  [EmptyResult EXCEPT !.hourly_price = TagNotFound, !.monthly_price = TagNotFound,
                      !.total_monthly =
                         IF hc /\ cv.total = Keep THEN TagNotFound
                         ELSE Assigned(NoneV, cv.total),
                      !.error = cv.error, !.lookup = Called(NoneV)]

\* process_instance_row, the branch of a lookup that returned None.
OptNotFound(hc, cv) ==
  [EmptyResult EXCEPT !.hourly_price = TagNotFound, !.monthly_price = TagNotFound,
                      !.total_monthly = IF hc THEN TagNotFound ELSE Assigned(NoneV, cv.total),
                      !.error = cv.error, !.lookup = Called(NoneV)]

process_instance_row(row, hc, answer) ==
  IF IsInvalidInstanceType(row.inst_type) THEN OptInvalidType(hc)
  ELSE LET cv == IF hc THEN ValidateCount(row.count) ELSE NoCount
       IN  IF cv.exc # "" THEN [EmptyResult EXCEPT !.exc = cv.exc]
           ELSE LET price == get_ec2_price(answer).price
                IN  IF price # NoneV THEN OptPriced(hc, cv, price)
                    ELSE OptNotFound(hc, cv)

\* fetch_price_clean_optimized.py, the handler of the row's except Exception.
OptUnexpected(hc, lookup) ==
  [hourly |-> TagError, monthly |-> TagError,
   total |-> IF hc THEN TagError ELSE Keep,
   errors |-> <<"Unexpected">>, found |-> FALSE, lookup |-> lookup]

\* result['hourly_price'] not in (None, 'Not found', 'Invalid instance type', 'Error')
OptIsPrice(v) == v \notin {NoneV, TagNotFound, TagInvalidType, TagError}

\* fetch_price_clean_optimized.py, one iteration of main's loop: the call and
\* the update of the DataFrame from the result.
OptRow(row, hc, answer) ==
  LET res == process_instance_row(row, hc, answer)
  IN  IF res.exc # "" THEN OptUnexpected(hc, res.lookup)
      ELSE [hourly |-> res.hourly_price, monthly |-> res.monthly_price,
            total |-> IF hc /\ res.total_monthly # NoneV THEN res.total_monthly ELSE Keep,
            errors |-> ErrorsOf(res.error),
            found |-> res.error = "" /\ OptIsPrice(res.hourly_price),
            lookup |-> res.lookup]

\* The answers of the pricing service the rows of a run are looked up with:
\* a price, another price, a first product without terms followed by a good
\* one, no product, a product whose price is not a number, an API error.
PipelineAnswers ==
  {Response(<<Good104>>), Response(<<Good250>>), Response(<<NoTerms, Good104>>),
   Response(<<>>), Response(<<NonNumericUsd>>), ClientError("ThrottlingException")}

\* The get_products calls of one row: get_ec2_price is called at most once
\* and issues one request.
CallsOf(lookup) == IF lookup.called THEN 1 ELSE 0

\* The DataFrame and the bookkeeping after row index was processed with
\* outcome o.
ApplyRow(o) ==
  /\ df' = [df EXCEPT ![index] =
              [@ EXCEPT !.hourly_price = Assigned(@, o.hourly),
                        !.monthly_price = Assigned(@, o.monthly),
                        !.total_monthly = Assigned(@, o.total)]]
  /\ error_rows' =
       error_rows \o [k \in 1..Len(o.errors) |-> [row |-> index, kind |-> o.errors[k]]]
  /\ prices_found' = (prices_found \/ o.found)
  /\ lookups' = Append(lookups, o.lookup)
  /\ index' = index + 1
  /\ requests' =
       requests \o [k \in 1..CallsOf(o.lookup) |-> [row |-> index, location |-> region_name]]
  /\ UNCHANGED <<variant, has_count, has_env, pc, env_totals_df, grand_total, console,
                 output, file, success, svc, result, region_code, region_name, startup,
                 exit_status, interrupted, reread,
                 twin>>

ProcessRowClean ==
  /\ pc = "loop"
  /\ variant = "clean"
  /\ index <= Len(df)
  /\ \E answer \in PipelineAnswers : ApplyRow(CleanRow(df[index], has_count, answer))

ProcessRowOptimized ==
  /\ pc = "loop"
  /\ variant = "optimized"
  /\ index <= Len(df)
  /\ \E answer \in PipelineAnswers : ApplyRow(OptRow(df[index], has_count, answer))

-----------------------------------------------------------------------------
(* After the loop: the error summary, the totals, the report.               *)

Line(what, g, v) == [what |-> what, g |-> g, v |-> v]

\* if error_rows: print every entry; if not prices_found and not error_rows:
\* print the warning.
ErrorSummary(errors, found) ==
  [k \in 1..Len(errors) |-> Line("RowError", errors[k].kind, IntV(errors[k].row))]
    \o (IF ~found /\ errors = <<>> THEN <<Line("NoPricingWarning", "", NoneV)>> ELSE <<>>)

ShowErrors ==
  /\ pc = "loop"
  /\ index > Len(df)
  /\ console' = console \o ErrorSummary(error_rows, prices_found)
  /\ pc' = "aggregate"
  /\ UNCHANGED <<variant, has_count, has_env, df, index, error_rows, prices_found,
                 lookups, env_totals_df, grand_total, output, file, success, svc, result,
                 region_code, region_name, requests, startup, exit_status, interrupted,
                 reread,
                 twin>>

\* pd.to_numeric(x, errors='coerce') of one cell: a float, or NaN for what is
\* no number (None, a missing cell, a text that does not parse: none of the
\* four error tags does).
ToNumeric(v) ==
  CASE v.t = "float" -> v
    [] v.t = "int" -> FloatV(v.n * Scale)
    [] v.t = "str" ->
         LET f == PyFloat(v.s) IN IF f.exc = "" THEN FloatV(f.n) ELSE NaN
    [] OTHER -> NaN

\* A sum that ends at the first value that is no number.
RECURSIVE NanSum_StopsAtNaN(_)
NanSum_StopsAtNaN(values) ==
  IF values = <<>> \/ Head(values).t # "float" THEN 0
  ELSE Head(values).n + NanSum_StopsAtNaN(Tail(values))

\* Series.sum(): the sum of the values that are not NaN, 0.0 when there is none.
RECURSIVE NanSum(_)
NanSum(values) ==
  IF values = <<>> THEN 0
  ELSE (IF Head(values).t = "float" THEN Head(values).n ELSE 0) + NanSum(Tail(values))

\* numeric_df: the rows with total_monthly coerced to numbers.
NumericDf(rows) ==
  [i \in 1..Len(rows) |-> [rows[i] EXCEPT !.total_monthly = ToNumeric(@)]]

\* The column rows['total_monthly'].
TotalColumn(rows) == [i \in 1..Len(rows) |-> rows[i].total_monthly]

\* numeric_df.groupby('environment')['total_monthly'].sum().reset_index():
\* one row per environment label in sorted order; groupby drops the rows
\* whose key is missing (NaN).
GroupBySum(numeric) ==
  LET present(e) == \E i \in 1..Len(numeric) : numeric[i].environment = TxtV(e)
      keys == SelectSeq(EnvOrder, present)
      members(e) == SelectSeq(numeric, LAMBDA r : r.environment = TxtV(e))
  IN  [k \in 1..Len(keys) |->
         [environment |-> TxtV(keys[k]),
          total_monthly |-> FloatV(NanSum(TotalColumn(members(keys[k]))))]]

\* The lines printed per group: only the groups with a total above zero.
EnvLines(groups) ==
  LET shown == SelectSeq(groups, LAMBDA r : r.total_monthly.t = "float" /\ r.total_monthly.n > 0)
  IN  [k \in 1..Len(shown) |-> Line("EnvTotal", shown[k].environment.g, shown[k].total_monthly)]

\* The grand total is printed only when it is above zero.
GrandTotalLines(total) ==
  IF total.t = "float" /\ total.n > 0 THEN <<Line("GrandTotal", "", total)>> ELSE <<>>

Aggregate ==
  /\ pc = "aggregate"
  /\ IF has_count
     THEN LET numeric == NumericDf(df)
              total == FloatV(NanSum(TotalColumn(numeric)))
              groups == GroupBySum(numeric)
          IN  /\ grand_total' = total
              /\ env_totals_df' = IF has_env THEN [set |-> TRUE, rows |-> groups] ELSE NoTotals
              /\ console' = console \o (IF has_env THEN EnvLines(groups) ELSE <<>>)
                                     \o GrandTotalLines(total)
     ELSE UNCHANGED <<grand_total, env_totals_df, console>>
  /\ pc' = "output"
  /\ UNCHANGED <<variant, has_count, has_env, df, index, error_rows, prices_found,
                 lookups, output, file, success, svc, result, region_code, region_name,
                 requests, startup, exit_status, interrupted, reread,
                 twin>>

\* A row of '' in every column of the table.
EmptyRow(hc, he) ==
  [inst_type |-> TxtV(""), count |-> IF hc THEN TxtV("") ELSE Absent,
   environment |-> IF he THEN TxtV("") ELSE Absent,
   hourly_price |-> TxtV(""), monthly_price |-> TxtV(""),
   total_monthly |-> IF hc THEN TxtV("") ELSE Absent]

\* An empty row with label in the first column (inst_type is the table's
\* first column).
LabelRow(hc, he, label) == [EmptyRow(hc, he) EXCEPT !.inst_type = label]

\* The amount put into the last column whether or not there is a
\* total_monthly column.
AmountRow_LastColumn(hc, he, label, amount) ==
  [LabelRow(hc, he, label) EXCEPT !.monthly_price = amount]

\* A label row with amount in the total_monthly column, or in the last column
\* (monthly_price) of a table without total_monthly.
AmountRow(hc, he, label, amount) ==
  IF hc THEN [LabelRow(hc, he, label) EXCEPT !.total_monthly = amount]
  ELSE [LabelRow(hc, he, label) EXCEPT !.monthly_price = amount]

\* row['environment'] if pd.notna(row['environment']) else 'Unspecified'
EnvName(env) == IF env.t = "nan" THEN TxtV("Unspecified") ELSE env

\* write_output_file's output_df: the data rows and the summary rows.
OutputRows(rows, hc, he, env_totals, total) ==
  rows
    \o (IF env_totals.set \/ total # NoneV
        THEN <<EmptyRow(hc, he), EmptyRow(hc, he)>>
               \o (IF env_totals.set /\ env_totals.rows # <<>>
                   THEN <<LabelRow(hc, he, TxtV("=== Environment Totals ==="))>>
                          \o [k \in 1..Len(env_totals.rows) |->
                                AmountRow(hc, he, EnvName(env_totals.rows[k].environment),
                                          env_totals.rows[k].total_monthly)]
                   ELSE <<>>)
               \o (IF total # NoneV
                   THEN <<EmptyRow(hc, he), AmountRow(hc, he, TxtV("GRAND TOTAL"), total)>>
                   ELSE <<>>)
        ELSE <<>>)

WritableExts == {".csv", ".xlsx", ".xls"}

\* write_output_file(df, file_path, env_totals, grand_total) on destination
\* target: what it returns and the file it leaves.
\* A writer without the handlers: a denied permission leaves the function
\* as the exception it is.
write_output_file_PermissionRaises(rows, hc, he, target, env_totals, total, old) ==
  IF ~target.dir_exists THEN [ok |-> FALSE, exc |-> "", file |-> old]
  ELSE IF target.ext \notin WritableExts THEN [ok |-> FALSE, exc |-> "", file |-> old]
  ELSE IF ~target.writable THEN [ok |-> FALSE, exc |-> "PermissionError", file |-> old]
  ELSE [ok |-> TRUE, exc |-> "",
        file |-> [written |-> TRUE, rows |-> OutputRows(rows, hc, he, env_totals, total)]]

\* A writer without the directory check, one that makes the directory.
write_output_file_NoDirCheck(rows, hc, he, target, env_totals, total, old) ==
  IF target.ext \notin WritableExts THEN [ok |-> FALSE, exc |-> "", file |-> old]
  ELSE IF ~target.writable THEN [ok |-> FALSE, exc |-> "", file |-> old]
  ELSE [ok |-> TRUE, exc |-> "",
        file |-> [written |-> TRUE, rows |-> OutputRows(rows, hc, he, env_totals, total)]]

\* exc names the exception that leaves the function: none does, the two
\* handlers return False for whatever the writer raises.
write_output_file(rows, hc, he, target, env_totals, total, old) ==
  IF ~target.dir_exists THEN [ok |-> FALSE, exc |-> "", file |-> old]
  ELSE IF target.ext \notin WritableExts THEN [ok |-> FALSE, exc |-> "", file |-> old]
  ELSE IF ~target.writable THEN [ok |-> FALSE, exc |-> "", file |-> old]
  ELSE [ok |-> TRUE, exc |-> "",
        file |-> [written |-> TRUE, rows |-> OutputRows(rows, hc, he, env_totals, total)]]

Target(dir_exists, ext, writable) ==
  [given |-> TRUE, dir_exists |-> dir_exists, ext |-> ext, writable |-> writable]

\* The destinations of a run: none (the summary goes to the console), a
\* writable .csv, a directory that does not exist, an extension that is not
\* supported, a file that may not be written.
OutputTargets ==
  {NoOutput, Target(TRUE, ".csv", TRUE), Target(FALSE, ".csv", TRUE),
   Target(TRUE, ".txt", TRUE), Target(TRUE, ".xlsx", FALSE)}

\* The exit status of sys.exit(1).
ExitOnError == IntV(1)

\* if args.output: write the file; else: print the summary. Then "Done!".
\* An exception that left write_output_file would reach main's handler.
Output ==
  /\ pc = "output"
  /\ \E target \in OutputTargets :
       LET w == write_output_file(df, has_count, has_env, target, env_totals_df,
                                  grand_total, file)
           raised == target.given /\ w.exc # ""
       IN  /\ output' = target
           /\ file' = IF target.given THEN w.file ELSE file
           /\ success' = IF target.given /\ ~raised
                         THEN (IF w.ok THEN TxtV("True") ELSE TxtV("False"))
                         ELSE success
           /\ console' =
                IF raised THEN console \o <<Line("UnexpectedError", w.exc, NoneV)>>
                ELSE console
                       \o (IF target.given
                           THEN (IF w.ok THEN <<Line("ResultsWritten", "", NoneV)>> ELSE <<>>)
                           ELSE <<Line("Summary", "", NoneV)>>)
                       \o <<Line("Done", "", NoneV)>>
           /\ exit_status' = IF raised THEN ExitOnError ELSE ExitNormally
           /\ pc' = IF raised THEN "exited" ELSE "done"
  /\ UNCHANGED <<variant, has_count, has_env, df, index, error_rows, prices_found,
                 lookups, env_totals_df, grand_total, svc, result, region_code,
                 region_name, requests, startup, interrupted, reread,
                 twin>>

Next == ProcessRowClean \/ ProcessRowOptimized \/ ShowErrors \/ Aggregate \/ Output

Spec == Init /\ [][Next]_vars

-----------------------------------------------------------------------------
(* get_ec2_price on its own: one call on every answer of the service.       *)

InitPrice ==
  /\ variant \in {"clean", "optimized"}
  /\ has_count = FALSE
  /\ has_env = FALSE
  /\ df = <<>>
  /\ index = 1
  /\ error_rows = <<>>
  /\ prices_found = FALSE
  /\ lookups = <<>>
  /\ pc = "lookup"
  /\ env_totals_df = NoTotals
  /\ grand_total = NoneV
  /\ console = <<>>
  /\ output = NoOutput
  /\ file = NoFile
  /\ success = NoneV
  /\ svc \in ServiceOutcomes
  /\ result = NoResult
  /\ region_code = DefaultRegion
  /\ region_name = get_region_name(DefaultRegion)
  /\ requests = <<>>
  /\ startup = Accepted
  /\ exit_status = NoneV
  /\ interrupted = FALSE
  /\ reread = <<>>
  /\ twin = NoTwin

CallGetEc2Price ==
  /\ pc = "lookup"
  /\ result' = get_ec2_price(svc)
  /\ pc' = "returned"
  /\ UNCHANGED <<variant, has_count, has_env, df, index, error_rows, prices_found,
                 lookups, env_totals_df, grand_total, console, output, file, success, svc,
                 region_code, region_name, requests, startup, exit_status, interrupted,
                 reread,
                 twin>>

NextPrice == CallGetEc2Price

SpecPrice == InitPrice /\ [][NextPrice]_vars

-----------------------------------------------------------------------------
(* The whole run: the session, the region, the input file, the loop, the    *)
(* totals and the report, with a user interrupt at any point.               *)

\* Region codes a run is started with: two of the map and one that is not.
RunRegions == {DefaultRegion, "us-east-1", "eu-west-9"}

\* boto3.Session(...) and session.client(...): fine, or one of the three
\* handlers.
SessionOutcomes == {"ok", "ProfileNotFound", "NoCredentialsError", "Exception"}

\* What read_input_file meets.
InputOutcomes ==
  {"ok", "MissingFile", "UnsupportedFormat", "NoInstTypeColumn", "EmptyDataError",
   "ParserError", "Exception"}

\* A reader that accepts a file without an inst_type column.
read_input_file_NoColumnCheck(status) ==
  [exit |-> IF status \in {"ok", "NoInstTypeColumn"} THEN NoneV ELSE ExitOnError]

\* read_input_file: it returns the DataFrame (exit is None) or calls
\* sys.exit(1).
read_input_file(status) == [exit |-> IF status = "ok" THEN NoneV ELSE ExitOnError]

\* The rows of the inventories of whole runs: a row that is priced, a row
\* whose count raises, a row whose count is no number, a row with a blank
\* instance type.
RunRows ==
  {InputRow(T3Micro, IntV(5), TxtV("prod")), InputRow(T3Micro, Inf, TxtV("prod")),
   InputRow(T3Micro, StrV(<<"x">>), TxtV("dev")), InputRow(Blank, IntV(2), NaN)}

RunTables(hc, he) ==
  UNION {[1..k -> {Project(r, hc, he) : r \in RunRows}] : k \in 0..MaxRows}

\* The state when main is entered.
InitRun ==
  /\ variant \in {"clean", "optimized"}
  /\ has_count = FALSE
  /\ has_env = FALSE
  /\ df = <<>>
  /\ index = 1
  /\ error_rows = <<>>
  /\ prices_found = FALSE
  /\ lookups = <<>>
  /\ pc = "start"
  /\ env_totals_df = NoTotals
  /\ grand_total = NoneV
  /\ console = <<>>
  /\ output = NoOutput
  /\ file = NoFile
  /\ success = NoneV
  /\ svc = NoCall
  /\ result = NoResult
  /\ region_code \in RunRegions
  /\ region_name = ""
  /\ requests = <<>>
  /\ startup = [session |-> "pending", input |-> "pending"]
  /\ exit_status = NoneV
  /\ interrupted = FALSE
  /\ reread = <<>>
  /\ twin = NoTwin

\* Initialize the AWS session: each of the three handlers calls sys.exit(1).
InitSession ==
  /\ pc = "start"
  /\ \E outcome \in SessionOutcomes :
       /\ startup' = [startup EXCEPT !.session = outcome]
       /\ IF outcome = "ok"
          THEN pc' = "region" /\ UNCHANGED <<exit_status, console>>
          ELSE /\ pc' = "exited"
               /\ exit_status' = ExitOnError
               /\ console' = Append(console, Line("SessionError", outcome, NoneV))
  /\ UNCHANGED <<variant, has_count, has_env, df, index, error_rows, prices_found, lookups,
                 env_totals_df, grand_total, output, file, success, svc, result,
                 region_code, region_name, requests, interrupted, reread,
                 twin>>

\* region_name = get_region_name(args.region), with its warning and main's.
ResolveRegion ==
  /\ pc = "region"
  /\ region_name' = get_region_name(region_code)
  /\ console' =
       console
         \o (IF region_code \notin DOMAIN region_mapping
             THEN <<Line("UnrecognizedRegion", region_code, NoneV)>> ELSE <<>>)
         \o (IF get_region_name(region_code) = "Unknown region: " \o region_code
             THEN <<Line("ContinuingWithUnknownRegion", "", NoneV)>> ELSE <<>>)
  /\ pc' = "read"
  /\ UNCHANGED <<variant, has_count, has_env, df, index, error_rows, prices_found, lookups,
                 env_totals_df, grand_total, output, file, success, svc, result,
                 region_code, requests, startup, exit_status, interrupted, reread,
                 twin>>

\* df = read_input_file(args.input), and the price columns added to it.
ReadInput ==
  /\ pc = "read"
  /\ \E status \in InputOutcomes :
       /\ startup' = [startup EXCEPT !.input = status]
       /\ IF read_input_file(status).exit = NoneV
          THEN /\ \E hc \in BOOLEAN, he \in BOOLEAN :
                    /\ has_count' = hc
                    /\ has_env' = he
                    /\ \E tbl \in RunTables(hc, he) :
                         df' = [i \in 1..Len(tbl) |-> AddPriceColumns(tbl[i], hc)]
               /\ pc' = "loop"
               /\ UNCHANGED <<exit_status, console>>
          ELSE /\ pc' = "exited"
               /\ exit_status' = read_input_file(status).exit
               /\ console' = Append(console, Line("InputError", status, NoneV))
               /\ UNCHANGED <<has_count, has_env, df>>
  /\ UNCHANGED <<variant, index, error_rows, prices_found, lookups, env_totals_df,
                 grand_total, output, file, success, svc, result, region_code, region_name,
                 requests, interrupted, reread,
                 twin>>

\* A KeyboardInterrupt anywhere but inside the writer: no handler below
\* main's catches it, main prints the notice and calls sys.exit(1).
Interrupt ==
  /\ pc \in {"start", "region", "read", "loop", "aggregate", "output"}
  /\ interrupted' = TRUE
  /\ exit_status' = ExitOnError
  /\ console' = Append(console, Line("Cancelled", "", NoneV))
  /\ pc' = "exited"
  /\ UNCHANGED <<variant, has_count, has_env, df, index, error_rows, prices_found, lookups,
                 env_totals_df, grand_total, output, file, success, svc, result,
                 region_code, region_name, requests, startup, reread,
                 twin>>

\* A KeyboardInterrupt while to_csv / to_excel writes: write_output_file's
\* handlers catch Exception only, and the writer has opened the destination
\* itself, so what it had written so far stays.
InterruptWrite ==
  /\ pc = "output"
  /\ \E target \in OutputTargets :
       LET w == write_output_file(df, has_count, has_env, target, env_totals_df,
                                  grand_total, file)
       IN  /\ target.given /\ w.ok
           /\ output' = target
           /\ \E k \in 0..(Len(w.file.rows) - 1) :
                file' = [written |-> TRUE, rows |-> SubSeq(w.file.rows, 1, k)]
  /\ interrupted' = TRUE
  /\ exit_status' = ExitOnError
  /\ console' = Append(console, Line("Cancelled", "", NoneV))
  /\ pc' = "exited"
  /\ UNCHANGED <<variant, has_count, has_env, df, index, error_rows, prices_found, lookups,
                 env_totals_df, grand_total, success, svc, result, region_code,
                 region_name, requests, startup, reread,
                 twin>>

NextRun ==
  \/ InitSession \/ ResolveRegion \/ ReadInput
  \/ ProcessRowClean \/ ProcessRowOptimized \/ ShowErrors \/ Aggregate \/ Output
  \/ Interrupt \/ InterruptWrite

SpecRun == InitRun /\ [][NextRun]_vars

-----------------------------------------------------------------------------
(* write_output_file on its own, and the written report read back.          *)

\* The decimal digits of a natural number.
RECURSIVE DigitsOf(_)
DigitsOf(n) ==
  IF n < 10 THEN <<Digits[n + 1]>> ELSE Append(DigitsOf(n \div 10), Digits[(n % 10) + 1])

\* repr() of a non-negative float: the whole part, the point and the
\* decimals without trailing zeros (one is kept).
FormatFloat(u) ==
  LET frac == SubSeq(<<"0", "0", "0">> \o DigitsOf(u % Scale),
                     Len(DigitsOf(u % Scale)), Len(DigitsOf(u % Scale)) + 3)
      last == IF \E k \in 2..4 : frac[k] # "0"
              THEN CHOOSE k \in 2..4 : frac[k] # "0" /\ \A j \in (k + 1)..4 : frac[j] = "0"
              ELSE 1
  IN  DigitsOf(u \div Scale) \o <<".">> \o SubSeq(frac, 1, last)

\* The text to_csv writes for a cell: nothing for None and NaN.
ToCsv(v) ==
  CASE v.t \in {"none", "nan"} -> StrV(<<>>)
    [] v.t = "int" -> StrV(DigitsOf(v.n))
    [] v.t = "float" -> StrV(FormatFloat(v.n))
    [] v.t = "inf" -> StrV(<<"i", "n", "f">>)
    [] v.t = "txt" /\ v.g = "" -> StrV(<<>>)
    [] OTHER -> v

\* read_csv of one column of texts: a column whose filled cells are all
\* numbers is numeric (integers when no cell is empty, else floats with NaN
\* for the empty cells); any other column keeps its texts as strings.
ReadCsvColumn(col) ==
  LET filled == {k \in 1..Len(col) : col[k] # StrV(<<>>)}
      isInf(c) == c = StrV(<<"i", "n", "f">>)
      isNumber(c) == c.t = "str" /\ (isInf(c) \/ PyFloat(c.s).exc = "")
      isInteger(c) == c.t = "str" /\ AllDigits(c.s)
  IN  IF \E k \in 1..Len(col) : col[k].t = "absent" THEN col
      ELSE IF \A k \in filled : isNumber(col[k])
      THEN IF filled = 1..Len(col) /\ \A k \in filled : isInteger(col[k])
           THEN [k \in 1..Len(col) |-> IntV(DigitsValue(col[k].s))]
           ELSE [k \in 1..Len(col) |->
                   IF k \notin filled THEN NaN
                   ELSE IF isInf(col[k]) THEN Inf
                   ELSE FloatV(PyFloat(col[k].s).n)]
      ELSE [k \in 1..Len(col) |-> IF k \in filled THEN col[k] ELSE NaN]

ColumnNames ==
  {"inst_type", "count", "environment", "hourly_price", "monthly_price", "total_monthly"}

\* The table pd.read_csv makes of the file to_csv wrote from rows.
ReadCsv(rows) ==
  [i \in 1..Len(rows) |->
     [c \in ColumnNames |-> ReadCsvColumn([k \in 1..Len(rows) |-> ToCsv(rows[k][c])])[i]]]

\* Rows as the loop leaves them: priced with a total, tagged, priced with a
\* count that is no number.
WriteRows ==
  {[inst_type |-> T3Micro, count |-> IntV(5), environment |-> TxtV("prod"),
    hourly_price |-> FloatV(104), monthly_price |-> Monthly(FloatV(104)),
    total_monthly |-> Times(Monthly(FloatV(104)), IntV(5))],
   [inst_type |-> Blank, count |-> IntV(2), environment |-> NaN,
    hourly_price |-> TagInvalidType, monthly_price |-> TagInvalidType,
    total_monthly |-> TagInvalidType],
   [inst_type |-> T3Micro, count |-> StrV(<<"x">>), environment |-> TxtV("dev"),
    hourly_price |-> FloatV(250), monthly_price |-> Monthly(FloatV(250)),
    total_monthly |-> TagInvalidCount]}

\* The row in a table with or without the optional columns.
ProjectPriced(r, hc, he) ==
  [r EXCEPT !.count = IF hc THEN @ ELSE Absent,
            !.environment = IF he THEN @ ELSE Absent,
            !.total_monthly = IF hc THEN @ ELSE Absent]

WriteTables(hc, he) ==
  UNION {[1..k -> {ProjectPriced(r, hc, he) : r \in WriteRows}] : k \in 0..MaxRows}

\* The env_totals argument: None, an empty frame, two groups of which one
\* has no label.
WriteEnvTotals ==
  {NoTotals, [set |-> TRUE, rows |-> <<>>],
   [set |-> TRUE,
    rows |-> <<[environment |-> TxtV("prod"), total_monthly |-> FloatV(3744000)],
               [environment |-> NaN, total_monthly |-> FloatV(0)]>>]}

WriteGrandTotals == {NoneV, FloatV(0), FloatV(3744000)}

\* A file that is at the destination before the call.
OldFile(hc, he) == [written |-> TRUE, rows |-> <<LabelRow(hc, he, TxtV("old report"))>>]

InitWrite ==
  /\ variant \in {"clean", "optimized"}
  /\ has_count \in BOOLEAN
  /\ has_env \in BOOLEAN
  /\ df \in WriteTables(has_count, has_env)
  /\ index = 1
  /\ error_rows = <<>>
  /\ prices_found = FALSE
  /\ lookups = <<>>
  /\ pc = "write"
  /\ env_totals_df \in WriteEnvTotals
  /\ grand_total \in WriteGrandTotals
  /\ console = <<>>
  /\ output \in OutputTargets \ {NoOutput}
  /\ file \in {NoFile, OldFile(has_count, has_env)}
  /\ success = NoneV
  /\ svc = NoCall
  /\ result = NoResult
  /\ region_code = DefaultRegion
  /\ region_name = get_region_name(DefaultRegion)
  /\ requests = <<>>
  /\ startup = Accepted
  /\ exit_status = NoneV
  /\ interrupted = FALSE
  /\ reread = <<>>
  /\ twin = NoTwin

\* success = write_output_file(df, args.output, env_totals_df, grand_total)
CallWriteOutputFile ==
  /\ pc = "write"
  /\ LET w == write_output_file(df, has_count, has_env, output, env_totals_df,
                                grand_total, file)
     IN  /\ file' = w.file
         /\ success' = IF w.exc # "" THEN Raised
                       ELSE IF w.ok THEN TxtV("True") ELSE TxtV("False")
  /\ pc' = "written"
  /\ UNCHANGED <<variant, has_count, has_env, df, index, error_rows, prices_found, lookups,
                 env_totals_df, grand_total, console, output, svc, result, region_code,
                 region_name, requests, startup, exit_status, interrupted, reread,
                 twin>>

\* The written .csv read again with pd.read_csv, and its first len(df) rows.
ReadBack ==
  /\ pc = "written"
  /\ success = TxtV("True")
  /\ output.ext = ".csv"
  /\ reread' = SubSeq(ReadCsv(file.rows), 1, Len(df))
  /\ pc' = "reread"
  /\ UNCHANGED <<variant, has_count, has_env, df, index, error_rows, prices_found, lookups,
                 env_totals_df, grand_total, console, output, file, success, svc, result,
                 region_code, region_name, requests, startup, exit_status, interrupted,
                 twin>>

NextWrite == CallWriteOutputFile \/ ReadBack

SpecWrite == InitWrite /\ [][NextWrite]_vars

-----------------------------------------------------------------------------
(* The two variants side by side: fetch_price_clean.py in the run's own     *)
(* variables, fetch_price_clean_optimized.py in twin, on the same inventory *)
(* and with the same answer of the service for each row.                    *)

\* The row after the assignments of outcome o.
UpdatedRow(r, o) ==
  [r EXCEPT !.hourly_price = Assigned(@, o.hourly),
            !.monthly_price = Assigned(@, o.monthly),
            !.total_monthly = Assigned(@, o.total)]

\* The totals main computes from the table d and the report a writable .csv
\* destination gets: [env_totals_df, grand_total, file].
TotalsAndReport(d, hc, he) ==
  LET numeric == NumericDf(d)
      total == IF hc THEN FloatV(NanSum(TotalColumn(numeric))) ELSE NoneV
      groups == IF hc /\ he THEN [set |-> TRUE, rows |-> GroupBySum(numeric)] ELSE NoTotals
  IN  [env_totals_df |-> groups, grand_total |-> total,
       file |-> write_output_file(d, hc, he, Target(TRUE, ".csv", TRUE), groups, total,
                                  NoFile).file]

InitPair ==
  /\ variant = "clean"
  /\ has_count \in BOOLEAN
  /\ has_env \in BOOLEAN
  /\ \E tbl \in Tables(has_count, has_env) :
       LET rows == [i \in 1..Len(tbl) |-> AddPriceColumns(tbl[i], has_count)]
       IN  df = rows /\ twin = [NoTwin EXCEPT !.df = rows]
  /\ index = 1
  /\ error_rows = <<>>
  /\ prices_found = FALSE
  /\ lookups = <<>>
  /\ pc = "pair"
  /\ env_totals_df = NoTotals
  /\ grand_total = NoneV
  /\ console = <<>>
  /\ output = NoOutput
  /\ file = NoFile
  /\ success = NoneV
  /\ svc = NoCall
  /\ result = NoResult
  /\ region_code = DefaultRegion
  /\ region_name = get_region_name(DefaultRegion)
  /\ requests = <<>>
  /\ startup = Accepted
  /\ exit_status = NoneV
  /\ interrupted = FALSE
  /\ reread = <<>>

\* One iteration of each variant's loop on row index, the service giving
\* both the same answer.
PairRow ==
  /\ pc = "pair"
  /\ index <= Len(df)
  /\ \E answer \in PipelineAnswers :
     \E c \in {CleanRow(df[index], has_count, answer)},
        o \in {OptRow(twin.df[index], has_count, answer)} :
       LET entries(errors) == [k \in 1..Len(errors) |-> [row |-> index, kind |-> errors[k]]]
       IN  /\ df' = [df EXCEPT ![index] = UpdatedRow(@, c)]
           /\ error_rows' = error_rows \o entries(c.errors)
           /\ prices_found' = (prices_found \/ c.found)
           /\ lookups' = Append(lookups, c.lookup)
           /\ requests' =
                requests
                  \o [k \in 1..CallsOf(c.lookup) |-> [row |-> index, location |-> region_name]]
           /\ twin' = [twin EXCEPT !.df[index] = UpdatedRow(@, o),
                                   !.error_rows = @ \o entries(o.errors)]
  /\ index' = index + 1
  /\ UNCHANGED <<variant, has_count, has_env, pc, env_totals_df, grand_total, console,
                 output, file, success, svc, result, region_code, region_name, startup,
                 exit_status, interrupted, reread>>

\* After the loops: each variant's totals and written report.
PairFinish ==
  /\ pc = "pair"
  /\ index > Len(df)
  /\ \E mine \in {TotalsAndReport(df, has_count, has_env)},
        theirs \in {TotalsAndReport(twin.df, has_count, has_env)} :
         /\ env_totals_df' = mine.env_totals_df
         /\ grand_total' = mine.grand_total
         /\ file' = mine.file
         /\ twin' = [twin EXCEPT !.env_totals_df = theirs.env_totals_df,
                                 !.grand_total = theirs.grand_total,
                                 !.file = theirs.file]
  /\ output' = Target(TRUE, ".csv", TRUE)
  /\ pc' = "paired"
  /\ UNCHANGED <<variant, has_count, has_env, df, index, error_rows, prices_found, lookups,
                 console, success, svc, result, region_code, region_name, requests,
                 startup, exit_status, interrupted, reread>>

NextPair == PairRow \/ PairFinish

SpecPair == InitPair /\ [][NextPair]_vars

-----------------------------------------------------------------------------
(* Properties of the row processing.                                        *)

\* The rows the loop has been through.
Processed == 1..Len(lookups)

\* A cell that is not a string, or a string of nothing but blanks.
BlankOrNonString(c) == c.t # "str" \/ \A k \in 1..Len(c.s) : c.s[k] = " "

\* C1: in both variants, every processed row whose inst_type is not a string
\* or is blank after stripping has hourly_price and monthly_price (and
\* total_monthly when there is a count column) set to 'Invalid instance type',
\* and get_ec2_price was not called for it.
C1_InvalidTypeTaggedNoLookup ==
  \A i \in Processed :
    BlankOrNonString(df[i].inst_type) =>
      /\ df[i].hourly_price = TagInvalidType
      /\ df[i].monthly_price = TagInvalidType
      /\ has_count => df[i].total_monthly = TagInvalidType
      /\ ~lookups[i].called

\* A blank-string row of a table with a count column was processed, and the
\* row after it was looked up.
C1_Witness ==
  /\ has_count
  /\ Len(lookups) = 2
  /\ df[1].inst_type.t = "str"
  /\ BlankOrNonString(df[1].inst_type)
  /\ lookups[2].called

\* A count cell that int() turns into a number <= 0 (0, or 0.5 truncated to 0)
\* or refuses as no number.
BadCount(c) ==
  \/ PyInt(c).exc \in {"ValueError", "TypeError"}
  \/ PyInt(c).exc = "" /\ PyInt(c).n <= 0

\* C2: every processed row with a valid instance type whose count is <= 0 or
\* non-numeric has total_monthly = 'Invalid count', with hourly_price and
\* monthly_price computed from the price. Stated for the rows whose lookup
\* found a price (a lookup that returns None makes all three cells
\* 'Not found' in both variants).
C2_InvalidCountTagged ==
  \A i \in Processed :
    (/\ has_count
     /\ ~BlankOrNonString(df[i].inst_type)
     /\ BadCount(df[i].count)
     /\ lookups[i].called
     /\ lookups[i].price # NoneV) =>
      /\ df[i].total_monthly = TagInvalidCount
      /\ df[i].hourly_price = lookups[i].price
      /\ df[i].monthly_price = FloatV(lookups[i].price.n * 720)

\* The count cell as a number above zero, whatever its representation.
ParsesPositive(c) == PyInt(c).exc = "" /\ PyInt(c).n > 0

\* C3: every processed row with a valid instance type whose count parses as
\* an integer > 0 (an int, a float or a numeric string) and whose lookup
\* returned a price has total_monthly = monthly_price * count; and
\* total_monthly is a number only if the count is above zero.
C3_TotalIsMonthlyTimesCount ==
  \A i \in Processed :
    (has_count /\ ~BlankOrNonString(df[i].inst_type)) =>
      /\ (ParsesPositive(df[i].count) /\ lookups[i].called /\ lookups[i].price # NoneV) =>
           df[i].total_monthly = FloatV(lookups[i].price.n * 720 * PyInt(df[i].count).n)
      /\ IsNumber(df[i].total_monthly) =>
           (ParsesPositive(df[i].count) \/ IsPositive(df[i].count))

\* C4: for every processed row whose lookup returned a price p,
\* hourly_price = p and monthly_price = p * 720, whatever the row's count and
\* environment and whatever the table's columns.
C4_MonthlyIs720TimesHourly ==
  \A i \in Processed :
    (lookups[i].called /\ lookups[i].price # NoneV) =>
      /\ df[i].hourly_price = lookups[i].price
      /\ df[i].monthly_price = FloatV(lookups[i].price.n * 720)

\* A price was found for a row whose count is invalid, and for a row of
\* another environment with a valid count.
C4_Witness ==
  /\ Len(lookups) = 2
  /\ has_count /\ has_env
  /\ lookups[1].price = FloatV(104) /\ df[1].total_monthly = TagInvalidCount
  /\ lookups[2].price = FloatV(250) /\ df[2].environment # df[1].environment
  /\ df[2].monthly_price = FloatV(180000)

-----------------------------------------------------------------------------
(* Properties of the aggregation and of the report.                         *)

\* The totals have been computed.
Aggregated == pc \in {"output", "done"}

\* The sum of total_monthly over the rows of S whose total_monthly is a number.
RECURSIVE SumOfNumericTotals(_)
SumOfNumericTotals(S) ==
  IF S = {} THEN 0
  ELSE LET i == CHOOSE j \in S : TRUE
       IN  (IF IsNumber(df[i].total_monthly) THEN df[i].total_monthly.n ELSE 0)
             + SumOfNumericTotals(S \ {i})

\* C5: with a count column, the grand total computed after the loop is the
\* sum of total_monthly over exactly the rows whose total_monthly is a number;
\* rows with an error tag or no value add nothing and stop nothing.
C5_GrandTotalIsSumOfNumeric ==
  (Aggregated /\ has_count) =>
    grand_total = FloatV(SumOfNumericTotals(1..Len(df)))

\* A table whose first row carries an error tag and whose second row carries
\* a number was aggregated.
C5_Witness ==
  /\ Aggregated /\ has_count
  /\ Len(df) = 2
  /\ df[1].total_monthly \in ErrorTags
  /\ IsNumber(df[2].total_monthly)
  /\ grand_total = df[2].total_monthly

\* The rows whose environment cell is missing.
MissingEnv == {i \in 1..Len(df) : df[i].environment.t = "nan"}

RECURSIVE SumOfGroups(_)
SumOfGroups(groups) ==
  IF groups = <<>> THEN 0 ELSE Head(groups).total_monthly.n + SumOfGroups(Tail(groups))

\* C6: with an environment column, the rows whose environment is missing make
\* up an 'Unspecified' group whose subtotal is the sum of their numeric
\* total_monthly, and the group subtotals add up to the grand total. The
\* group is asked for when a row without environment has a number to add.
C6_UnspecifiedBucketAndSubtotalsAddUp ==
  (Aggregated /\ has_count /\ has_env) =>
    /\ (\E i \in MissingEnv : IsNumber(df[i].total_monthly)) =>
         \E k \in 1..Len(env_totals_df.rows) :
           /\ EnvName(env_totals_df.rows[k].environment) = TxtV("Unspecified")
           /\ env_totals_df.rows[k].total_monthly = FloatV(SumOfNumericTotals(MissingEnv))
    /\ SumOfGroups(env_totals_df.rows) = grand_total.n

\* C7: when the grand total is zero or absent, no grand total is reported:
\* no 'Grand Total' line on the console and no 'GRAND TOTAL' row in the file
\* that was written.
C7_ZeroTotalNotReported ==
  (pc = "done" /\ (grand_total = NoneV \/ grand_total.n = 0)) =>
    /\ \A k \in 1..Len(console) : console[k].what # "GrandTotal"
    /\ \A k \in 1..Len(file.rows) : file.rows[k].inst_type # TxtV("GRAND TOTAL")

\* C8: when the aggregation starts every row of the table has been processed,
\* and its hourly_price and monthly_price each hold a number or an error tag,
\* whatever the lookups returned.
C8_PricesPopulatedBeforeAggregation ==
  (pc = "aggregate") =>
    /\ Len(lookups) = Len(df)
    /\ \A i \in 1..Len(df) :
         /\ IsNumber(df[i].hourly_price) \/ df[i].hourly_price \in ErrorTags
         /\ IsNumber(df[i].monthly_price) \/ df[i].monthly_price \in ErrorTags

\* The aggregation starts on a table whose first row failed (not found, or an
\* exception) and whose second row was priced.
C8_Witness ==
  /\ pc = "aggregate"
  /\ Len(df) = 2
  /\ df[1].hourly_price \in {TagNotFound, TagError}
  /\ IsNumber(df[2].hourly_price)

\* The row failed in one of the four ways: its instance type is invalid, its
\* count is invalid, or its lookup returned None (nothing found, or the
\* service failed).
RowFailed(i) ==
  \/ BlankOrNonString(df[i].inst_type)
  \/ has_count /\ BadCount(df[i].count)
  \/ lookups[i].called /\ lookups[i].price = NoneV

\* C9: every processed row that failed in one of the four ways carries an
\* error tag, is in the error summary list, and - once the loop is over - was
\* displayed; the rows after it are processed.
C9_RowErrorsTaggedAndSummarised ==
  /\ \A i \in Processed :
       RowFailed(i) =>
         /\ \E c \in {df[i].hourly_price, df[i].monthly_price, df[i].total_monthly} :
              c \in ErrorTags
         /\ \E k \in 1..Len(error_rows) : error_rows[k].row = i
         /\ pc # "loop" =>
              \E k \in 1..Len(console) :
                console[k].what = "RowError" /\ console[k].v = IntV(i)
  /\ pc # "loop" => Len(lookups) = Len(df)

-----------------------------------------------------------------------------
(* Properties of get_ec2_price.                                             *)

\* The call returned from an answer that has a non-empty PriceList.
ReturnedFromList ==
  pc = "returned" /\ svc.kind = "ok" /\ svc.has_list /\ svc.PriceList # <<>>

\* The item is JSON and its traversal fails on a missing key or an empty
\* mapping.
TraversalFails(item) ==
  item.valid /\ ExtractPrice(item.data).exc \in {"KeyError", "IndexError"}

\* The item is JSON and its traversal reaches a USD value that is a number.
TraversalSucceeds(item) == item.valid /\ ExtractPrice(item.data).exc = ""

\* C10 as claimed: the result comes from the first item of the PriceList
\* only: None when the first item's traversal fails on a missing key or an
\* empty mapping, that item's USD value when it succeeds.
C10_FirstItemOnly ==
  ReturnedFromList =>
    LET first == svc.PriceList[1]
    IN  /\ TraversalFails(first) => result.price = NoneV
        /\ TraversalSucceeds(first) =>
             result.price = FloatV(ExtractPrice(first.data).n)

\* C10 as amended: the items whose traversal fails on a missing key or an
\* empty mapping are skipped, and the result comes from the first item that
\* is not skipped: its USD value when its traversal succeeds, None otherwise
\* (it is not JSON, or its USD value is no number); None when every item is
\* skipped.
C10_FirstItemNotSkipped ==
  ReturnedFromList =>
    LET items == svc.PriceList
        stops == {i \in 1..Len(items) : ~TraversalFails(items[i])}
    IN  IF stops = {} THEN result.price = NoneV
        ELSE LET k == CHOOSE i \in stops : \A j \in stops : i <= j
             IN  IF TraversalSucceeds(items[k])
                 THEN result.price = FloatV(ExtractPrice(items[k].data).n)
                 ELSE result.price = NoneV

\* The first item has no 'terms', the second one is priced: the second one's
\* price is returned.
C10_Witness ==
  /\ ReturnedFromList
  /\ Len(svc.PriceList) = 2
  /\ TraversalFails(svc.PriceList[1])
  /\ TraversalSucceeds(svc.PriceList[2])
  /\ result.price = FloatV(104)

-----------------------------------------------------------------------------
(* Properties of get_ec2_price's error handling.                            *)

\* The first product of the returned list is text that is no JSON, or has a
\* USD value that is no number.
FirstItemUnreadable ==
  /\ svc.kind = "ok" /\ svc.has_list /\ svc.PriceList # <<>>
  /\ \/ ~svc.PriceList[1].valid
     \/ ExtractPrice(svc.PriceList[1].data).exc = "ValueError"

\* C11: get_ec2_price never propagates a failure: whatever the service does
\* (a client error with or without a code, any other exception, a response
\* without PriceList, an empty PriceList, products that are no JSON, lack
\* keys or hold a non-numeric USD value) the call returns a number or None,
\* and None for each failure that leaves no candidate product.
C11_NeverPropagates ==
  pc = "returned" =>
    /\ result.via # "raised"
    /\ result.price = NoneV \/ IsNumber(result.price)
    /\ svc.kind \in {"ClientError", "Exception"} => result.price = NoneV
    /\ (svc.kind = "ok" /\ (~svc.has_list \/ svc.PriceList = <<>>)) => result.price = NoneV
    /\ FirstItemUnreadable => result.price = NoneV

\* An exception that is no ClientError, and a product that is no JSON, each
\* ended in a returned None.
C11_Witness ==
  /\ pc = "returned"
  /\ result.price = NoneV
  /\ result.via = "exception"
  /\ svc = OtherException \/ FirstItemUnreadable

-----------------------------------------------------------------------------
(* Properties of the whole run.                                             *)

\* get_region_name has been called.
Resolved == region_name # ""

UnknownRegion == region_code \notin DOMAIN region_mapping

\* The run ended in sys.exit(1) on the session or the input file.
StartupFailed ==
  startup.session \notin {"pending", "ok"} \/ startup.input \notin {"pending", "ok"}

\* The run with an unknown region goes on as any other: it ends early only
\* on the input file or an interrupt, every lookup carries region_name as
\* its location, and a finished run has been through every row.
RunContinues ==
  /\ \A k \in 1..Len(requests) : requests[k].location = region_name
  /\ (pc = "exited" /\ ~interrupted /\ Resolved) => startup.input \notin {"pending", "ok"}
  /\ pc = "done" => Len(lookups) = Len(df)

\* C12 as stated: a region code that the static map lacks resolves to the
\* string 'unknown region: {code}', a code of the map to its mapped name, and
\* the run continues with that string as the location filter.
C12_UnknownRegionLowerCase ==
  Resolved =>
    /\ region_name = IF UnknownRegion THEN "unknown region: " \o region_code
                     ELSE region_mapping[region_code]
    /\ RunContinues

\* C12, amended: a region code that the static map lacks resolves to the
\* string 'Unknown region: {code}' (capital U), a code of the map to its
\* mapped name; nothing is raised and the run continues: the input is read
\* and every row is processed with that string as the location filter.
C12_UnknownRegionTagged ==
  Resolved =>
    /\ region_name = IF UnknownRegion THEN "Unknown region: " \o region_code
                     ELSE region_mapping[region_code]
    /\ RunContinues

\* A finished run with an unknown region whose row was looked up under the
\* tagged string.
C12_Witness ==
  /\ pc = "done"
  /\ UnknownRegion
  /\ requests # <<>>
  /\ requests[1].location = "Unknown region: eu-west-9"

\* C13: a destination whose directory does not exist is detected before any
\* price lookup is issued: no get_products call precedes the detection.
C13_MissingDestinationDetectedFirst ==
  (output.given /\ ~output.dir_exists) => requests = <<>>

\* C14: a missing input file, an unsupported input extension, a missing
\* inst_type column (or any other failure to read the input) and a failure
\* to resolve the profile or the credentials end the process with a
\* non-zero status before any row is processed: no lookup was issued and no
\* output file written.
C14_StartupFailureExitsBeforeRows ==
  StartupFailed =>
    /\ pc = "exited"
    /\ exit_status.t = "int" /\ exit_status.n # 0
    /\ lookups = <<>>
    /\ requests = <<>>
    /\ file = NoFile

\* The run ended on an input file without an inst_type column.
C14_Witness ==
  /\ startup.input = "NoInstTypeColumn"
  /\ pc = "exited"
  /\ exit_status = IntV(1)

\* Every row of the table carries an error tag.
EveryRowFailed ==
  /\ df # <<>>
  /\ \A i \in 1..Len(df) : df[i].hourly_price \in ErrorTags

\* C15: once the session and the input are accepted, nothing but a user
\* interrupt ends the run with a non-zero status: whatever the rows'
\* errors, and whether or not the report could be written, the run reaches
\* its end and exits with status zero.
C15_AcceptedRunExitsZero ==
  (startup = Accepted /\ ~interrupted) =>
    /\ pc # "exited"
    /\ exit_status = IF pc = "done" THEN IntV(0) ELSE NoneV

\* A finished run in which every row failed and the report was not written.
C15_Witness ==
  /\ pc = "done"
  /\ startup = Accepted
  /\ EveryRowFailed
  /\ \E i \in 1..Len(df) : df[i].hourly_price = TagError
  /\ success = TxtV("False")
  /\ exit_status = IntV(0)

\* C19: a user interrupt at any point of the run ends the process with a
\* non-zero status and leaves no partial output file: the file is absent or
\* untouched, or it holds the whole report.
C19_InterruptLeavesNoPartialFile ==
  interrupted =>
    /\ pc = "exited"
    /\ exit_status.t = "int" /\ exit_status.n # 0
    /\ \/ file = NoFile
       \/ file.rows = OutputRows(df, has_count, has_env, env_totals_df, grand_total)

-----------------------------------------------------------------------------
(* Properties of the report writer.                                         *)

\* write_output_file has returned.
Returned == pc \in {"written", "reread"}

\* Every cell of the row is the empty string, but for first, the cell of the
\* first column, and for amount (when given), the cell of the total_monthly
\* column or, in a table without one, of the last column.
SummaryRow(r, first, amount) ==
  LET amountColumn == IF has_count THEN "total_monthly" ELSE "monthly_price"
  IN  \A c \in ColumnNames :
        r[c] = CASE r[c].t = "absent" -> Absent
                 [] c = "inst_type" -> first
                 [] c = amountColumn /\ amount # NoneV -> amount
                 [] OTHER -> TxtV("")

\* C16: the written table is, in order: the data rows in their order; if
\* group totals or a grand total were passed, two blank rows; if the group
\* totals are not empty, the '=== Environment Totals ===' row and one row per
\* group, label in the first column and subtotal in the total_monthly column
\* (the last column without one); if a grand total was passed, a blank row
\* and the 'GRAND TOTAL' row with the total in the same column. With
\* neither, nothing follows the data rows.
C16_ReportLayout ==
  (Returned /\ success = TxtV("True")) =>
    LET rows == file.rows
        N == Len(df)
        groups == IF env_totals_df.set THEN env_totals_df.rows ELSE <<>>
        any == env_totals_df.set \/ grand_total # NoneV
        G == Len(groups)
        afterBlanks == N + (IF any THEN 2 ELSE 0)
        afterGroups == afterBlanks + (IF G > 0 THEN 1 + G ELSE 0)
    IN  /\ Len(rows) = afterGroups + (IF grand_total # NoneV THEN 2 ELSE 0)
        /\ \A i \in 1..N : rows[i] = df[i]
        /\ any => SummaryRow(rows[N + 1], TxtV(""), NoneV)
                    /\ SummaryRow(rows[N + 2], TxtV(""), NoneV)
        /\ G > 0 =>
             /\ SummaryRow(rows[afterBlanks + 1], TxtV("=== Environment Totals ==="), NoneV)
             /\ \A k \in 1..G :
                  SummaryRow(rows[afterBlanks + 1 + k],
                             IF groups[k].environment = NaN THEN TxtV("Unspecified")
                             ELSE groups[k].environment,
                             groups[k].total_monthly)
        /\ grand_total # NoneV =>
             /\ SummaryRow(rows[afterGroups + 1], TxtV(""), NoneV)
             /\ SummaryRow(rows[afterGroups + 2], TxtV("GRAND TOTAL"), grand_total)

\* A report of two data rows, two groups and a grand total, in a table with
\* a total_monthly column.
C16_Witness ==
  /\ Returned /\ success = TxtV("True")
  /\ has_count
  /\ Len(df) = 2
  /\ env_totals_df.set /\ Len(env_totals_df.rows) = 2
  /\ grand_total = FloatV(3744000)
  /\ Len(file.rows) = 9

\* The destination cannot be written: its directory does not exist, the
\* permission is denied, or its extension is none of .csv, .xlsx, .xls.
Unwritable ==
  ~output.dir_exists \/ ~output.writable \/ output.ext \notin {".csv", ".xlsx", ".xls"}

\* C17: write_output_file returns False and creates or modifies no file
\* when the destination's directory does not exist, when permission is
\* denied or when the extension is unsupported; it returns True only when
\* the writer has written the whole table; it never raises.
C17_WriteFailsCleanly ==
  [][pc = "write" =>
       /\ success' \in {TxtV("True"), TxtV("False")}
       /\ Unwritable => (success' = TxtV("False") /\ file' = file)
       /\ success' = TxtV("True") =>
            (file'.written /\ Len(file'.rows) >= Len(df)
               /\ \A i \in 1..Len(df) : file'.rows[i] = df[i])]_vars

\* A destination whose directory does not exist: False, and the file that
\* was there before is as it was.
C17_Witness ==
  /\ pc = "written"
  /\ ~output.dir_exists
  /\ success = TxtV("False")
  /\ file = OldFile(has_count, has_env)

\* Two cells hold the same value: both are missing, or they are equal
\* numbers, or they are equal.
SameValue(a, b) ==
  \/ a = b
  \/ a.t \in {"none", "nan"} /\ b.t \in {"none", "nan"}
  \/ a.t = "int" /\ b.t = "float" /\ b.n = a.n * Scale
  \/ a.t = "float" /\ b.t = "int" /\ a.n = b.n * Scale

\* C18: the data rows read back from the written report (its first N rows)
\* hold the same values as the in-memory table; the table is what it was
\* and the first N rows written are its rows in order.
C18_RoundTrip ==
  pc = "reread" =>
    /\ Len(reread) = Len(df)
    /\ \A i \in 1..Len(df) :
         /\ file.rows[i] = df[i]
         /\ \A c \in ColumnNames : SameValue(reread[i][c], df[i][c])

-----------------------------------------------------------------------------
(* Properties of the lookups of a run.                                      *)

\* The get_products calls issued for row i.
CallsFor(i) == Cardinality({k \in 1..Len(requests) : requests[k].row = i})

\* C20: price lookups are never retried: each processed row with a valid
\* instance type has caused exactly one get_products call and each other
\* row none, so the calls are as many as the rows with a valid instance
\* type; a lookup that failed left its row tagged 'Not found', and the rows
\* after it are looked up all the same.
C20_OneCallPerValidRow ==
  /\ \A i \in Processed :
       /\ CallsFor(i) = IF BlankOrNonString(df[i].inst_type) THEN 0 ELSE 1
       /\ (lookups[i].called /\ lookups[i].price = NoneV) =>
            df[i].hourly_price = TagNotFound
  /\ Len(requests) =
       Cardinality({i \in Processed : ~BlankOrNonString(df[i].inst_type)})

\* A processed row with a valid instance type whose lookup returned None.
LookupReturnedNone(i) ==
  /\ ~BlankOrNonString(df[i].inst_type)
  /\ lookups[i].called
  /\ lookups[i].price = NoneV

\* C21 as stated: every row with a valid instance type whose lookup returns
\* None has hourly_price, monthly_price and total_monthly all set to
\* 'Not found', for every count and with or without a count column.
C21_AllThreeNotFound ==
  \A i \in Processed :
    LookupReturnedNone(i) =>
      /\ df[i].hourly_price = TagNotFound
      /\ df[i].monthly_price = TagNotFound
      /\ df[i].total_monthly = TagNotFound

\* C21, amended: every row with a valid instance type whose lookup returns
\* None has hourly_price and monthly_price set to 'Not found' and, in an
\* inventory with a count column, total_monthly too, whatever the count (an
\* 'Invalid count' tag is overwritten); an inventory without a count column
\* has no total_monthly field and none is made.
C21_NotFoundInEveryResultField ==
  \A i \in Processed :
    LookupReturnedNone(i) =>
      /\ df[i].hourly_price = TagNotFound
      /\ df[i].monthly_price = TagNotFound
      /\ df[i].total_monthly = IF has_count THEN TagNotFound ELSE Absent

\* A row whose count is invalid and whose lookup returned None, processed by
\* the optimized variant: 'Not found' has replaced 'Invalid count'.
C21_Witness ==
  /\ variant = "optimized"
  /\ has_count
  /\ \E i \in Processed :
       /\ LookupReturnedNone(i)
       /\ BadCount(df[i].count)
       /\ df[i].total_monthly = TagNotFound

-----------------------------------------------------------------------------
(* Properties of the two variants.                                          *)

\* C22: the two variants are observationally equivalent: on every inventory
\* and every sequence of lookup outcomes they leave the same hourly_price,
\* monthly_price and total_monthly in every row, the same entries in the
\* error summary, the same group totals and grand total and the same rows
\* in the written report.
C22_VariantsEquivalent ==
  /\ \A i \in 1..(index - 1) :
       /\ df[i].hourly_price = twin.df[i].hourly_price
       /\ df[i].monthly_price = twin.df[i].monthly_price
       /\ df[i].total_monthly = twin.df[i].total_monthly
  /\ error_rows = twin.error_rows
  /\ pc = "paired" =>
       /\ env_totals_df = twin.env_totals_df
       /\ grand_total = twin.grand_total
       /\ file.rows = twin.file.rows

====
